---------------------------- MODULE Spec2Model ----------------------------
(***************************************************************************)
(* A model of the context menu widget: the Menu component (show / hide /   *)
(* boundary clamping / visibility notification), getMousePosition, the     *)
(* Item and Submenu components and the subscription of menus in the event  *)
(* manager.                                                                *)
(***************************************************************************)
EXTENDS Integers, Sequences, FiniteSets, TLC

(***************************************************************************)
(* Bounds of the model.                                                    *)
(***************************************************************************)
\* coordinates of events and requested positions range over -1..MaxCoord
MaxCoord == 3
\* window.innerWidth / window.innerHeight (environment, fixed per run)
InnerWidth == 3
InnerHeight == 3
\* offsetWidth / offsetHeight of the rendered menu node
OffsetWidth == 2
OffsetHeight == 2
\* most timers pending at the same time
MaxTimers == 2

(***************************************************************************)
(* JavaScript values: a coordinate read from an event is a number,         *)
(* undefined (missing field) or NaN.                                       *)
(***************************************************************************)
Undefined == [t |-> "undefined", n |-> 0]
NaN == [t |-> "NaN", n |-> 0]
Num(i) == [t |-> "number", n |-> i]

Coords == -1 .. MaxCoord
JsCoords == {Undefined, NaN} \cup {Num(i) : i \in Coords}

\* !v for a coordinate: undefined, NaN and 0 are falsy
Falsy(v) == v.t # "number" \/ v.n = 0
\* v < 0: false for undefined (NaN) and NaN
Negative(v) == v.t = "number" /\ v.n < 0

Touch(cx, cy) == [clientX |-> cx, clientY |-> cy]
\* changedTouches: undefined on a mouse event, a (possibly empty) list on a touch event
NoTouches == [defined |-> FALSE, list |-> << >>]
Touches(l) == [defined |-> TRUE, list |-> l]

\* an event object, with the fields the code reads
Event(type, cx, cy, touches, button, ctrlKey) ==
  [type |-> type, clientX |-> cx, clientY |-> cy, changedTouches |-> touches,
   button |-> button, ctrlKey |-> ctrlKey]

\* {} as TriggerEvent, the initial triggerEvent of the menu state
EmptyEvent == Event("", Undefined, Undefined, NoTouches, -1, FALSE)

(***************************************************************************)
(* utils.ts: getMousePosition.  The result records whether the call threw  *)
(* (reading clientX of touch[0] when changedTouches is empty).             *)
(***************************************************************************)
Normalise(v) == IF Falsy(v) \/ Negative(v) THEN 0 ELSE v.n

getMousePosition(e) ==
  LET touch == e.changedTouches
      threw == touch.defined /\ Len(touch.list) = 0
      px == IF touch.defined /\ ~threw THEN touch.list[1].clientX ELSE e.clientX
      py == IF touch.defined /\ ~threw THEN touch.list[1].clientY ELSE e.clientY
  IN  IF threw THEN [threw |-> TRUE, x |-> 0, y |-> 0]
      ELSE [threw |-> FALSE, x |-> Normalise(px), y |-> Normalise(py)]


(***************************************************************************)
(* The Menu component.  Every mounted Menu m has its props, its reducer    *)
(* state and its refs; timers holds the pending setTimeout callbacks.      *)
(***************************************************************************)
\* number of Menu components on the page
NumMenus == 2
Menus == 1 .. NumMenus

VARIABLES
  \* the Menu components
  props,         \* props[m]: mounted, id, disableBoundariesCheck, forwardedRef, onVisibilityChange
  state,         \* state[m]: the useReducer state of the Menu
  nodeRef,       \* nodeRef[m]: nodeRef.current is attached to the rendered Paper
  wasVisible,    \* wasVisible[m]: wasVisible.current
  visibilityId,  \* visibilityId[m]: visibilityId.current, 0 when undefined
  timers,        \* pending timers scheduled by hide: [id, menu]
  notified,      \* notified[m]: the last value passed to onVisibilityChange, "none" before any call
  requested,     \* requested[m]: the position the last completed show started from
  \* the children of Menu 1
  item,           \* the Item element's props: present, disabled, hidden, keyMatcher, closeOnClick, handlerEvent
  submenu,        \* the Submenu element's props: present, disabled, hidden
  children,       \* the children's refs, DOM nodes and React state, and the menu's item tracker
  hideAllTimers,  \* pending setTimeout(contextMenu.hideAll) armed by blur listeners
  calls,          \* the onClick invocations made by the last step
  lastOp,         \* the event the last step delivered
  \* the event manager
  eventList,  \* event -> the handlers subscribed, in insertion order
  lastEmit,   \* the last emit: its kind, its event and the menus it made visible
  \* a call of getMousePosition
  mouseEvent,    \* the trigger event given
  mousePosition  \* what the call returned, or that it has not returned yet

menuVars == <<props, state, nodeRef, wasVisible, visibilityId, timers, notified, requested>>
childVars == <<item, submenu, children, hideAllTimers, calls, lastOp>>
emVars == <<eventList, lastEmit>>
posVars == <<mouseEvent, mousePosition>>
vars == <<menuVars, childVars, emVars, posVars>>

\* the values a trigger passes as props
TriggerProps == {"p1", "p2", "p3"}

\* useReducer initial state
InitialState ==
  [x |-> 0, y |-> 0, visible |-> FALSE, triggerEvent |-> EmptyEvent,
   propsFromTrigger |-> "null", willLeave |-> FALSE]

\* reducer: the payload's fields replace the state's
reducer(s, payload) == payload @@ s

NoPosition == [given |-> FALSE, x |-> 0, y |-> 0]
Position(px, py) == [given |-> TRUE, x |-> px, y |-> py]

\* ShowContextMenuParams
ShowParams(event, p, position) == [event |-> event, props |-> p, position |-> position]

\* hide's optional argument
NoArg == [given |-> FALSE, event |-> EmptyEvent]
Arg(e) == [given |-> TRUE, event |-> e]

\* the menu part of the world the handlers read and write
World ==
  [state |-> state, nodeRef |-> nodeRef, wasVisible |-> wasVisible,
   visibilityId |-> visibilityId, timers |-> timers, notified |-> notified,
   requested |-> requested]

\* timer handles: setTimeout returns a handle different from every pending one; a handle
\* that is neither pending nor held in a visibilityId ref can stand for any fresh one
TimerIds == 1 .. (MaxTimers + 2 * NumMenus)
FreshTimer(w) ==
  CHOOSE i \in TimerIds :
    /\ i \notin {t.id : t \in w.timers} \cup {w.visibilityId[m] : m \in Menus}
    /\ \A j \in TimerIds :
         j \notin {t.id : t \in w.timers} \cup {w.visibilityId[m] : m \in Menus} => i <= j

\* checkBoundaries with the disableBoundariesCheck test left out
checkBoundaries_AlwaysClamps(attached, disableBoundariesCheck, x, y) ==
  IF attached
  THEN [x |-> IF x + OffsetWidth > InnerWidth THEN x - (x + OffsetWidth - InnerWidth) ELSE x,
        y |-> IF y + OffsetHeight > InnerHeight THEN y - (y + OffsetHeight - InnerHeight) ELSE y]
  ELSE [x |-> x, y |-> y]

checkBoundaries(attached, disableBoundariesCheck, x, y) ==
  IF attached /\ ~disableBoundariesCheck
  THEN [x |-> IF x + OffsetWidth > InnerWidth THEN x - (x + OffsetWidth - InnerWidth) ELSE x,
        y |-> IF y + OffsetHeight > InnerHeight THEN y - (y + OffsetHeight - InnerHeight) ELSE y]
  ELSE [x |-> x, y |-> y]

\* the Paper is rendered with ref={ref ?? nodeRef}: nodeRef is attached only when the
\* menu is rendered and the caller forwards no ref
attachedAfterRender(pr, visible) == visible /\ ~pr.forwardedRef

\* the effect with deps [state.visible]: runs after a commit that changed state.visible
boundaryEffect(pr, before, s, attached) ==
  IF before.visible # s.visible /\ s.visible
  THEN reducer(s, checkBoundaries(attached, pr.disableBoundariesCheck, s.x, s.y))
  ELSE s

\* show({event, props, position}), the handler subscribed under the menu's id.  flushSync
\* commits the render of the new state, and the effects of that commit, before show goes on
show(w, pr, m, params) ==
  LET mp == getMousePosition(params.event)
      p == IF params.position.given THEN params.position ELSE mp
      b == checkBoundaries(w.nodeRef[m], pr.disableBoundariesCheck, p.x, p.y)
      s1 == reducer(w.state[m],
                    [visible |-> TRUE, willLeave |-> FALSE, x |-> b.x, y |-> b.y,
                     triggerEvent |-> params.event, propsFromTrigger |-> params.props])
      attached == attachedAfterRender(pr, s1.visible)
      s2 == boundaryEffect(pr, w.state[m], s1, attached)
      notify == w.wasVisible[m] # "true" /\ pr.onVisibilityChange
  IN  IF ~params.position.given /\ mp.threw
      THEN w
      ELSE [w EXCEPT
              !.state[m] = s2,
              !.nodeRef[m] = attached,
              !.timers = {t \in w.timers : t.id # w.visibilityId[m]},
              !.notified[m] = IF notify THEN "true" ELSE @,
              !.wasVisible[m] = IF notify THEN "true" ELSE @,
              !.requested[m] = Position(p.x, p.y)]

\* the test of hide with the comparison of e.type left out
ignoredByHide_NoTypeTest(e) ==
  e.given /\ (e.event.button = 2 \/ e.event.ctrlKey)

\* the events hide ignores: ctrl + trackpad and right click, but not contextmenu
ignoredByHide(e) ==
  e.given /\ (e.event.button = 2 \/ e.event.ctrlKey) /\ e.event.type # "contextmenu"

\* hide(e?), the handler subscribed under HIDE_ALL and on the window's hideOnEvents, with
\* the commit of the state it sets
hide(w, pr, m, e) ==
  IF ignoredByHide(e)
  THEN w
  ELSE LET s1 == reducer(w.state[m],
                         [visible |-> IF w.state[m].visible THEN FALSE ELSE w.state[m].visible])
           id == FreshTimer(w)
       IN  [w EXCEPT
              !.state[m] = s1,
              !.nodeRef[m] = attachedAfterRender(pr, s1.visible),
              !.visibilityId[m] = id,
              !.timers = @ \cup {[id |-> id, menu |-> m]}]

\* the callback hide schedules
visibilityTimeout(w, pr, m) ==
  [w EXCEPT
     !.notified[m] = IF pr.onVisibilityChange THEN "false" ELSE @,
     !.wasVisible[m] = "false"]

Apply(w) ==
  /\ state' = w.state
  /\ nodeRef' = w.nodeRef
  /\ wasVisible' = w.wasVisible
  /\ visibilityId' = w.visibilityId
  /\ timers' = w.timers
  /\ notified' = w.notified
  /\ requested' = w.requested

(***************************************************************************)
(* The children of Menu 1: an Item and a Submenu, cloned with the menu's   *)
(* triggerEvent and propsFromTrigger on every render of the visible menu.  *)
(***************************************************************************)
\* most DOM nodes created for the children while the menu stays visible
MaxNodes == 2
\* most blur listeners armed on the item's node, and most pending
\* setTimeout(contextMenu.hideAll), at the same time
MaxBlur == 1
\* most timers of hide pending at the same time while the children are followed
MaxChildTimers == 1

\* a BooleanPredicate: a boolean, or a function of the handler params
Const(b) == [isFn |-> FALSE, value |-> b, trueFor |-> {}]
Fn(S) == [isFn |-> TRUE, value |-> FALSE, trueFor |-> S]

getPredicateValue(predicate, payload) ==
  IF predicate.isFn THEN payload.props \in predicate.trueFor ELSE predicate.value

Keys == {"Enter", " ", "Escape", "ArrowUp", "ArrowDown", "ArrowRight", "ArrowLeft", "c"}

\* keyMatcher prop: absent, or a function true for the keys in keys
NoKeyMatcher == [given |-> FALSE, keys |-> {}]
KeyMatcher(S) == [given |-> TRUE, keys |-> S]

NoItem ==
  [present |-> FALSE, disabled |-> Const(FALSE), hidden |-> Const(FALSE),
   keyMatcher |-> NoKeyMatcher, closeOnClick |-> TRUE, handlerEvent |-> "onClick"]
NoSubmenu == [present |-> FALSE, disabled |-> Const(FALSE), hidden |-> Const(FALSE)]

\* nothing rendered: the state of the children while the menu is not visible
NoChildren ==
  [itemNode |-> 0,       \* Item: itemNode.current, 0 when undefined
   button |-> 0,         \* the DOM node of the Item's Button, 0 when it renders null
   blurListeners |-> 0,  \* once-listeners for blur armed on the Button's node
   paper |-> 0,          \* the DOM node of the Submenu's outer Paper, 0 when it renders null
   hovered |-> FALSE,    \* Submenu: hovered
   nodeCount |-> 0,      \* DOM nodes created since the menu became visible
   itemTracker |-> {}]   \* the menu's item tracker: node -> entry

NoOp == [op |-> "none", key |-> "", enabled |-> FALSE]

\* Map.set
set(tracker, node, entry) == {t \in tracker : t.node # node} \cup {entry}

\* handlerParams of a render of the Item or Submenu
handlerParams(s) == [props |-> s.propsFromTrigger]

isDisabled(el, s) == getPredicateValue(el.disabled, handlerParams(s))
isHidden(el, s) == getPredicateValue(el.hidden, handlerParams(s))

\* Item: registerItem(node) for a non-null node, in the render of state s
registerItem(c, node, s) ==
  IF ~isDisabled(item, s)
  THEN [c EXCEPT
          !.itemNode = node,
          !.itemTracker = set(@, node,
                              [node |-> node, isSubmenu |-> FALSE,
                               keyMatcher |-> ~isDisabled(item, s) /\ item.keyMatcher.given,
                               props |-> s.propsFromTrigger])]
  ELSE c

\* Submenu: trackRef(node) for a non-null node, in the render of state s
trackRef(c, node, s) ==
  IF ~isDisabled(submenu, s)
  THEN [c EXCEPT
          !.itemTracker = set(@, node,
                              [node |-> node, isSubmenu |-> TRUE, keyMatcher |-> FALSE,
                               props |-> s.propsFromTrigger])]
  ELSE c

\* a render of the Item with state s: null when hidden, else the Button, whose ref
\* callback (a new function on every render) is called with the node
renderItem(c, s) ==
  IF ~item.present THEN c
  ELSE IF isHidden(item, s) THEN [c EXCEPT !.button = 0, !.blurListeners = 0]
  ELSE IF c.button # 0 THEN registerItem(c, c.button, s)
  ELSE registerItem([c EXCEPT !.button = c.nodeCount + 1, !.nodeCount = @ + 1],
                    c.nodeCount + 1, s)

\* a render of the Submenu with state s
renderSubmenu(c, s) ==
  IF ~submenu.present THEN c
  ELSE IF isHidden(submenu, s) THEN [c EXCEPT !.paper = 0]
  ELSE IF c.paper # 0 THEN trackRef(c, c.paper, s)
  ELSE trackRef([c EXCEPT !.paper = c.nodeCount + 1, !.nodeCount = @ + 1],
                c.nodeCount + 1, s)

\* the commit of Menu 1 going from state before to state s: the children are rendered
\* only while the menu is visible, and are mounted anew when it becomes visible; the
\* effect with deps [state.visible] clears the item tracker once the menu is hidden
renderChildren(c, before, s) ==
  IF ~s.visible THEN NoChildren
  ELSE renderSubmenu(renderItem(IF before.visible THEN c ELSE NoChildren, s), s)

\* Item: dispatchUserHandler of the render whose handlerParams.props is p, for event key.
\* A result is the children and the onClick calls made; with itemNode.current undefined
\* node.focus() throws before onClick is reached
dispatchUserHandler(c, via, key, p) ==
  IF c.itemNode = 0
  THEN [children |-> c, calls |-> << >>]
  ELSE [children |-> [c EXCEPT !.blurListeners = IF c.itemNode = c.button THEN @ + 1 ELSE @],
        calls |-> << [via |-> via, key |-> key, props |-> p] >>]

\* handleClick with the closeOnClick test left out
handleClick_AlwaysCloses(c, s) ==
  IF ~isDisabled(item, s)
  THEN dispatchUserHandler(c, "handleClick", "", s.propsFromTrigger)
  ELSE [children |-> c, calls |-> << >>]

\* Item: handleClick of the render of state s
handleClick(c, s) ==
  IF ~isDisabled(item, s)
  THEN IF ~item.closeOnClick
       THEN [children |-> c,
             calls |-> << [via |-> "handleClick", key |-> "", props |-> s.propsFromTrigger] >>]
       ELSE dispatchUserHandler(c, "handleClick", "", s.propsFromTrigger)
  ELSE [children |-> c, calls |-> << >>]

\* Item: handleKeyDown of the render of state s; stopped tells whether it stopped the
\* event's propagation
handleKeyDown(c, s, key) ==
  IF key = "Enter" \/ key = " "
  THEN dispatchUserHandler(c, "handleKeyDown", key, s.propsFromTrigger) @@ [stopped |-> TRUE]
  ELSE [children |-> c, calls |-> << >>, stopped |-> FALSE]

\* keyboardController.matchKeys(e): the key matcher of every tracked entry is given the
\* event; an Item's matcher runs dispatchUserHandler of the render that registered it
\* when the Item's keyMatcher prop returns true
RECURSIVE matchKeys(_, _, _)
matchKeys(c, entries, key) ==
  IF entries = {} THEN [children |-> c, calls |-> << >>]
  ELSE LET t == CHOOSE t \in entries : \A u \in entries : t.node <= u.node
           r == IF t.keyMatcher /\ key \in item.keyMatcher.keys
                THEN dispatchUserHandler(c, "keyMatcher", key, t.props)
                ELSE [children |-> c, calls |-> << >>]
           rest == matchKeys(r.children, entries \ {t}, key)
       IN  [children |-> rest.children, calls |-> r.calls \o rest.calls]

\* keyboardController.openSubmenu() can open a submenu only if one is tracked
canOpenSubmenu(c) == \E t \in c.itemTracker : t.isSubmenu

\* Menu: handleKeyboard(e), the window's keydown listener while the menu is visible;
\* opened is what menuController.openSubmenu() returns
handleKeyboard(w, pr, c, key, opened) ==
  IF key \in {"Enter", " "}
  THEN IF ~opened
       THEN LET w2 == hide(w, pr, 1, NoArg)
            IN  [w |-> w2, children |-> renderChildren(c, w.state[1], w2.state[1]),
                 calls |-> << >>]
       ELSE [w |-> w, children |-> c, calls |-> << >>]
  ELSE IF key = "Escape"
  THEN LET w2 == hide(w, pr, 1, NoArg)
       IN  [w |-> w2, children |-> renderChildren(c, w.state[1], w2.state[1]), calls |-> << >>]
  ELSE IF key \in {"ArrowUp", "ArrowDown", "ArrowRight", "ArrowLeft"}
  THEN [w |-> w, children |-> c, calls |-> << >>]
  ELSE [w |-> w] @@ matchKeys(c, c.itemTracker, key)

\* the DOM event an Item's handlerEvent prop listens to
handlerEventType(h) ==
  IF h = "onClick" THEN "click" ELSE IF h = "onMouseDown" THEN "mousedown" ELSE "mouseup"

\* the Item is rendered and enabled in the current render
enabledItem == children.button # 0 /\ ~isDisabled(item, state[1])

ClickEvent == Event("click", Num(1), Num(1), NoTouches, 0, FALSE)
CtrlClickEvent == Event("click", Num(1), Num(1), NoTouches, 0, TRUE)
TriggerEvent == Event("contextmenu", Num(1), Num(1), NoTouches, 2, FALSE)

\* what a step leaves of the bounded resources
WithinBounds(w, c) ==
  /\ Cardinality(w.timers) <= MaxChildTimers
  /\ c.nodeCount <= MaxNodes
  /\ c.blurListeners <= MaxBlur

Step(w, c, cs, op) ==
  /\ WithinBounds(w, c)
  /\ Apply(w)
  /\ children' = c
  /\ calls' = cs
  /\ lastOp' = op
  /\ UNCHANGED <<props, item, submenu, emVars, posVars>>

\* the trigger shows Menu 1 (again) with props p
ChildShow ==
  \E p \in TriggerProps :
    LET w == show(World, props[1], 1, ShowParams(TriggerEvent, p, NoPosition))
    IN  /\ Step(w, renderChildren(children, state[1], w.state[1]), << >>,
                [op |-> "show", key |-> "", enabled |-> FALSE])
        /\ UNCHANGED hideAllTimers

\* the window delivers a click outside the menu's children while the menu is visible
ChildWindowClick ==
  /\ state[1].visible
  /\ \E e \in {ClickEvent, CtrlClickEvent} :
       LET w == hide(World, props[1], 1, Arg(e))
       IN  Step(w, renderChildren(children, state[1], w.state[1]), << >>,
                [op |-> "windowClick", key |-> "", enabled |-> FALSE])
  /\ UNCHANGED hideAllTimers

\* a timer armed by a blur listener fires: contextMenu.hideAll() emits HIDE_ALL
HideAllFires ==
  /\ hideAllTimers > 0
  /\ hideAllTimers' = hideAllTimers - 1
  /\ LET w == hide(World, props[1], 1, NoArg)
     IN  Step(w, renderChildren(children, state[1], w.state[1]), << >>,
              [op |-> "hideAll", key |-> "", enabled |-> FALSE])

\* a timer scheduled by hide fires
ChildTimerFires ==
  /\ \E t \in timers :
       Step(visibilityTimeout([World EXCEPT !.timers = @ \ {t}], props[t.menu], t.menu),
            children, << >>, [op |-> "timer", key |-> "", enabled |-> FALSE])
  /\ UNCHANGED hideAllTimers

\* a mouse event on the Item's Button: the handlerEvent runs handleClick, which stops the
\* propagation; any other click bubbles to the window, where hide listens
ItemMouseEvent ==
  /\ children.button # 0
  /\ \E type \in {"click", "mousedown", "mouseup"} :
       LET op == [op |-> "itemMouse", key |-> type, enabled |-> enabledItem]
       IN  IF type = handlerEventType(item.handlerEvent)
           THEN LET r == handleClick(children, state[1])
                IN  Step(World, r.children, r.calls, op)
           ELSE IF type = "click"
           THEN LET w == hide(World, props[1], 1, Arg(ClickEvent))
                IN  Step(w, renderChildren(children, state[1], w.state[1]), << >>, op)
           ELSE Step(World, children, << >>, op)
  /\ UNCHANGED hideAllTimers

\* a keydown on the Item's Button: handleKeyDown, then, unless stopped, the window's
\* handleKeyboard
ItemKeyDown ==
  /\ children.button # 0
  /\ \E key \in Keys, opened \in BOOLEAN :
       /\ opened => canOpenSubmenu(children)
       /\ LET r == handleKeyDown(children, state[1], key)
              k == handleKeyboard(World, props[1], r.children, key, opened)
              op == [op |-> "itemKey", key |-> "", enabled |-> enabledItem]
          IN  IF r.stopped
              THEN Step(World, r.children, r.calls, op)
              ELSE Step(k.w, k.children, r.calls \o k.calls, op)
  /\ UNCHANGED hideAllTimers

\* a keydown the window receives while the menu is visible
WindowKeyDown ==
  /\ state[1].visible
  /\ \E key \in Keys, opened \in BOOLEAN :
       /\ opened => canOpenSubmenu(children)
       /\ LET k == handleKeyboard(World, props[1], children, key, opened)
          IN  Step(k.w, k.children, k.calls,
                   [op |-> "windowKey", key |-> key, enabled |-> enabledItem])
  /\ UNCHANGED hideAllTimers

\* the Item's node loses focus: every once-listener armed by dispatchUserHandler runs
\* setTimeout(contextMenu.hideAll)
ItemBlur ==
  /\ children.blurListeners > 0
  /\ hideAllTimers + children.blurListeners <= MaxBlur
  /\ hideAllTimers' = hideAllTimers + children.blurListeners
  /\ Step(World, [children EXCEPT !.blurListeners = 0], << >>,
          [op |-> "blur", key |-> "", enabled |-> FALSE])

\* Submenu: onMouseOver / onMouseLeave of the outer Paper
SubmenuMouseOver ==
  /\ children.paper # 0
  /\ Step(World, [children EXCEPT !.hovered = TRUE], << >>,
          [op |-> "mouseOver", key |-> "", enabled |-> FALSE])
  /\ UNCHANGED hideAllTimers

SubmenuMouseLeave ==
  /\ children.paper # 0
  /\ Step(World, [children EXCEPT !.hovered = FALSE], << >>,
          [op |-> "mouseLeave", key |-> "", enabled |-> FALSE])
  /\ UNCHANGED hideAllTimers

InitNoChildren ==
  /\ children = NoChildren
  /\ hideAllTimers = 0
  /\ calls = << >>
  /\ lastOp = NoOp

(***************************************************************************)
(* The event manager, and the effect that subscribes a Menu in it.         *)
(***************************************************************************)
\* EVENT.HIDE_ALL, the first member of a numeric enum
HIDE_ALL == 0
\* menu ids are the numbers 0..MaxMenuId
MaxMenuId == 1
MenuIdValues == 0 .. MaxMenuId
EventKeys == MenuIdValues \cup {HIDE_ALL}

NoEmit == [kind |-> "none", key |-> 0, madeVisible |-> {}]

\* a handler is the show or the hide of a render of menu m; the cleanup of a render's
\* effect runs before the next render's effect, so two renders' handlers of one menu are
\* never subscribed together
Handler(m, fn) == [menu |-> m, fn |-> fn]

InSeq(x, q) == \E i \in 1 .. Len(q) : q[i] = x
Without(q, x) == SelectSeq(q, LAMBDA y : y # x)

\* eventManager.on(event, handler): handlers of an event form a set kept in insertion order
on(list, event, handler) ==
  IF InSeq(handler, list[event]) THEN list
  ELSE [list EXCEPT ![event] = Append(@, handler)]

\* eventManager.off(event, handler)
off(list, event, handler) == [list EXCEPT ![event] = Without(@, handler)]

\* the arguments of an emit: none (HIDE_ALL), or the ShowContextMenuParams
NoArgs == [given |-> FALSE, params |-> ShowParams(EmptyEvent, "null", NoPosition)]
Args(params) == [given |-> TRUE, params |-> params]

\* show destructures its argument, and reads the event's position when none is passed
showThrows(args) ==
  \/ ~args.given
  \/ ~args.params.position.given /\ getMousePosition(args.params.event).threw

\* hide given the arguments of the emit: the params object has no button, ctrlKey or type
hideArg(args) == IF args.given THEN Arg(EmptyEvent) ELSE NoArg

\* eventManager.emit(event, args): every handler of the event is called with args, in
\* order; a handler that throws ends the emit
RECURSIVE emit(_, _, _, _)
emit(w, pr, handlers, args) ==
  IF handlers = << >> THEN [w |-> w, threw |-> FALSE]
  ELSE LET h == Head(handlers)
       IN  IF h.fn = "show"
           THEN IF showThrows(args) THEN [w |-> w, threw |-> TRUE]
                ELSE emit(show(w, pr[h.menu], h.menu, args.params), pr, Tail(handlers), args)
           ELSE emit(hide(w, pr[h.menu], h.menu, hideArg(args)), pr, Tail(handlers), args)

\* the effect with deps [id, disableBoundariesCheck], and its cleanup
subscribe(list, m, id) == on(on(list, id, Handler(m, "show")), HIDE_ALL, Handler(m, "hide"))
unsubscribe(list, m, id) == off(off(list, id, Handler(m, "show")), HIDE_ALL, Handler(m, "hide"))

InitNoEvents ==
  /\ eventList = [k \in EventKeys |-> << >>]
  /\ lastEmit = NoEmit

\* no call of getMousePosition is followed
NoCall == [done |-> FALSE, threw |-> FALSE, x |-> 0, y |-> 0]
InitNoCall ==
  /\ mouseEvent = EmptyEvent
  /\ mousePosition = NoCall

(***************************************************************************)
(* SpecMenu: one mounted Menu, shown and hidden by its callers, by the     *)
(* window events it listens to while visible, and its timers.              *)
(***************************************************************************)
Unmounted ==
  [mounted |-> FALSE, id |-> 1, disableBoundariesCheck |-> FALSE,
   forwardedRef |-> FALSE, onVisibilityChange |-> FALSE]

MenuProps(id, dbc, fwd, cb) ==
  [mounted |-> TRUE, id |-> id, disableBoundariesCheck |-> dbc,
   forwardedRef |-> fwd, onVisibilityChange |-> cb]

\* trigger events given to show: a mouse event past the window's edge, one with a negative
\* and a NaN coordinate, a touch event, and a touch event with no changed touch
ShowEvents ==
  { Event("contextmenu", Num(MaxCoord), Num(1), NoTouches, 2, FALSE),
    Event("contextmenu", Num(-1), NaN, NoTouches, 2, FALSE),
    Event("touchend", Undefined, Undefined, Touches(<<Touch(Num(1), Num(MaxCoord))>>), -1, FALSE),
    Event("touchend", Undefined, Undefined, Touches(<< >>), -1, FALSE) }

Positions == {Position(px, py) : px \in 0 .. MaxCoord, py \in 0 .. MaxCoord}

\* the events of hideOnEvents the window delivers; button is -1 where the event has none
WindowEvents ==
  { Event("click", Num(1), Num(1), NoTouches, 0, FALSE),
    Event("click", Num(1), Num(1), NoTouches, 2, FALSE),
    Event("click", Num(1), Num(1), NoTouches, 0, TRUE),
    Event("contextmenu", Num(1), Num(1), NoTouches, 2, FALSE),
    Event("resize", Undefined, Undefined, NoTouches, -1, FALSE),
    Event("scroll", Undefined, Undefined, NoTouches, -1, FALSE),
    Event("blur", Undefined, Undefined, NoTouches, -1, FALSE) }

InitMenuRefs ==
  /\ state = [m \in Menus |-> InitialState]
  /\ nodeRef = [m \in Menus |-> FALSE]
  /\ wasVisible = [m \in Menus |-> "undefined"]
  /\ visibilityId = [m \in Menus |-> 0]
  /\ timers = {}
  /\ notified = [m \in Menus |-> "none"]
  /\ requested = [m \in Menus |-> NoPosition]

InitMenu ==
  /\ InitNoEvents
  /\ InitNoCall
  /\ item = NoItem
  /\ submenu = NoSubmenu
  /\ InitNoChildren
  /\ \E dbc \in BOOLEAN, fwd \in BOOLEAN, cb \in BOOLEAN :
       props = [m \in Menus |-> IF m = 1 THEN MenuProps(1, dbc, fwd, cb) ELSE Unmounted]
  /\ InitMenuRefs

\* a caller shows the menu, at a position or at the trigger event's
MenuShow(m) ==
  /\ props[m].mounted
  /\ \E e \in ShowEvents, position \in {NoPosition} \cup Positions :
       Apply(show(World, props[m], m, ShowParams(e, "p1", position)))
  /\ UNCHANGED <<props, childVars, emVars, posVars>>

\* a caller hides the menu: hide()
MenuHide(m) ==
  /\ props[m].mounted
  /\ Cardinality(timers) < MaxTimers
  /\ Apply(hide(World, props[m], m, NoArg))
  /\ UNCHANGED <<props, childVars, emVars, posVars>>

\* the window delivers one of hideOnEvents while the menu is visible: hide(e)
MenuWindowEvent(m) ==
  /\ props[m].mounted
  /\ state[m].visible
  /\ Cardinality(timers) < MaxTimers
  /\ \E e \in WindowEvents : Apply(hide(World, props[m], m, Arg(e)))
  /\ UNCHANGED <<props, childVars, emVars, posVars>>

\* a pending timer fires
TimerFires ==
  /\ \E t \in timers :
       Apply(visibilityTimeout([World EXCEPT !.timers = @ \ {t}], props[t.menu], t.menu))
  /\ UNCHANGED <<props, childVars, emVars, posVars>>

NextMenu ==
  \/ \E m \in Menus : MenuShow(m)
  \/ \E m \in Menus : MenuHide(m)
  \/ \E m \in Menus : MenuWindowEvent(m)
  \/ TimerFires

SpecMenu == InitMenu /\ [][NextMenu]_vars

\* C1: for a Menu given an onVisibilityChange callback, once every pending timer has
\* fired, the last value passed to onVisibilityChange (if any) is the menu's visible state
C1_VisibilityTracked ==
  \A m \in Menus :
    (props[m].mounted /\ props[m].onVisibilityChange /\ timers = {} /\ notified[m] # "none")
      => notified[m] = (IF state[m].visible THEN "true" ELSE "false")

\* C2: with disableBoundariesCheck false, a visible menu lies inside the window:
\* x + offsetWidth <= innerWidth and y + offsetHeight <= innerHeight
C2_InsideViewport ==
  \A m \in Menus :
    (props[m].mounted /\ ~props[m].disableBoundariesCheck /\ state[m].visible)
      => /\ state[m].x + OffsetWidth <= InnerWidth
         /\ state[m].y + OffsetHeight <= InnerHeight

\* C3: with disableBoundariesCheck true, after show the menu's x and y are exactly the
\* position passed to show, or the one getMousePosition computes, and stay so
C3_ExactPosition ==
  \A m \in Menus :
    (props[m].mounted /\ props[m].disableBoundariesCheck /\ requested[m].given)
      => /\ state[m].x = requested[m].x
         /\ state[m].y = requested[m].y

\* a menu with disableBoundariesCheck, its node attached, shown past the window's edge
\* and hidden again
C3_Witness ==
  \E m \in Menus :
    /\ props[m].disableBoundariesCheck
    /\ ~props[m].forwardedRef
    /\ requested[m].given
    /\ requested[m].x + OffsetWidth > InnerWidth
    /\ ~state[m].visible

(***************************************************************************)
(* SpecItem: Menu 1 with one Item as its child.                            *)
(***************************************************************************)
\* the disabled and hidden props an element is given: functions of the trigger's props,
\* or booleans
Predicates ==
  { [disabled |-> Fn({"p2"}), hidden |-> Fn({"p3"})],
    [disabled |-> Const(TRUE), hidden |-> Const(FALSE)] }

ItemConfigs ==
  { [present |-> TRUE, disabled |-> q.disabled, hidden |-> q.hidden, keyMatcher |-> k,
     closeOnClick |-> b, handlerEvent |-> h] :
      q \in Predicates, k \in {NoKeyMatcher, KeyMatcher({"c"}), KeyMatcher({"Enter"})},
      b \in BOOLEAN, h \in {"onClick", "onMouseDown"} }

SubmenuConfigs ==
  { [present |-> TRUE, disabled |-> q.disabled, hidden |-> q.hidden] : q \in Predicates }

InitOneMenu ==
  /\ props = [m \in Menus |-> IF m = 1 THEN MenuProps(1, FALSE, FALSE, FALSE) ELSE Unmounted]
  /\ InitMenuRefs
  /\ InitNoChildren
  /\ InitNoEvents
  /\ InitNoCall

InitItem ==
  /\ item \in ItemConfigs
  /\ submenu = NoSubmenu
  /\ InitOneMenu

NextItem ==
  \/ ChildShow
  \/ ChildWindowClick
  \/ HideAllFires
  \/ ChildTimerFires
  \/ ItemMouseEvent
  \/ ItemKeyDown
  \/ WindowKeyDown
  \/ ItemBlur

SpecItem == InitItem /\ [][NextItem]_vars

(***************************************************************************)
(* SpecSubmenu: Menu 1 with one Submenu as its child.                      *)
(***************************************************************************)
InitSubmenu ==
  /\ item = NoItem
  /\ submenu \in SubmenuConfigs
  /\ InitOneMenu

NextSubmenu ==
  \/ ChildShow
  \/ ChildWindowClick
  \/ ChildTimerFires
  \/ WindowKeyDown
  \/ SubmenuMouseOver
  \/ SubmenuMouseLeave

SpecSubmenu == InitSubmenu /\ [][NextSubmenu]_vars

\* C4: while the Item's disabled predicate is true for the current trigger props, no
\* step invokes its onClick: not the handler event, not Enter or Space on the item, not
\* its keyMatcher
C4_DisabledNeverRuns ==
  (item.present /\ isDisabled(item, state[1])) => calls = << >>

\* C5: while the Item's hidden predicate is true for the current trigger props, the Item
\* renders nothing and no step invokes its onClick
C5_HiddenNeverRuns ==
  (item.present /\ state[1].visible /\ isHidden(item, state[1]))
    => (children.button = 0 /\ calls = << >>)

\* C6: for an enabled, rendered Item with a keyMatcher, a keydown the window receives
\* invokes onClick exactly once, with that event, when keyMatcher returns true for it,
\* and does not invoke it otherwise
C6_KeyMatcherTriggers ==
  (lastOp.op = "windowKey" /\ lastOp.enabled /\ item.keyMatcher.given)
    => IF lastOp.key \in item.keyMatcher.keys
       THEN Len(calls) = 1 /\ calls[1].key = lastOp.key
       ELSE calls = << >>

\* C7: the handler event on an enabled Item invokes onClick exactly once; with
\* closeOnClick false it arms no blur listener, schedules no hideAll and leaves the menu
\* as it is; with closeOnClick true it arms one blur listener, whose blur schedules hideAll
C7_CloseOnClick ==
  [][ /\ (/\ lastOp'.op = "itemMouse"
          /\ lastOp'.key = handlerEventType(item.handlerEvent)
          /\ lastOp'.enabled)
         => /\ Len(calls') = 1
            /\ calls'[1].via = "handleClick"
            /\ hideAllTimers' = hideAllTimers
            /\ state' = state
            /\ IF item.closeOnClick
               THEN children'.blurListeners = children.blurListeners + 1
               ELSE children'.blurListeners = children.blurListeners
      /\ lastOp'.op = "blur"
         => /\ hideAllTimers' = hideAllTimers + children.blurListeners
            /\ calls' = << >> ]_vars

\* the handler event has just run onClick on an enabled Item with closeOnClick false,
\* and no blur listener is armed
C7_Witness ==
  /\ lastOp.op = "itemMouse"
  /\ lastOp.key = handlerEventType(item.handlerEvent)
  /\ lastOp.enabled
  /\ ~item.closeOnClick
  /\ Len(calls) = 1
  /\ children.blurListeners = 0
  /\ state[1].visible

\* C8: while the Submenu's disabled predicate is true, it is not registered in the
\* parent's item tracker and its nested menu is not visible
C8_DisabledSubmenuInert ==
  (submenu.present /\ state[1].visible /\ isDisabled(submenu, state[1]))
    => /\ \A t \in children.itemTracker : ~t.isSubmenu
       /\ ~(children.paper # 0 /\ children.hovered)

(***************************************************************************)
(* SpecEvents: Menus mounted, re-rendered and unmounted, subscribed in the *)
(* event manager, and shown and hidden by the events emitted to it.        *)
(***************************************************************************)
InitEvents ==
  /\ props = [m \in Menus |-> Unmounted]
  /\ InitMenuRefs
  /\ item = NoItem
  /\ submenu = NoSubmenu
  /\ InitNoChildren
  /\ InitNoEvents
  /\ InitNoCall

\* a Menu is mounted: its first render, then its effects
Mount(m) ==
  /\ ~props[m].mounted
  /\ \E id \in MenuIdValues, dbc \in BOOLEAN :
       /\ props' = [props EXCEPT ![m] = MenuProps(id, dbc, FALSE, FALSE)]
       /\ eventList' = subscribe(eventList, m, id)
  /\ lastEmit' = NoEmit
  /\ UNCHANGED <<state, nodeRef, wasVisible, visibilityId, timers, notified, requested, childVars, posVars>>

\* a mounted Menu is rendered with another id or disableBoundariesCheck: the effect's
\* cleanup of the previous render, then the effect of this one
Rerender(m) ==
  /\ props[m].mounted
  /\ \E id \in MenuIdValues, dbc \in BOOLEAN :
       /\ id # props[m].id \/ dbc # props[m].disableBoundariesCheck
       /\ props' = [props EXCEPT ![m].id = id, ![m].disableBoundariesCheck = dbc]
       /\ eventList' = subscribe(unsubscribe(eventList, m, props[m].id), m, id)
  /\ lastEmit' = NoEmit
  /\ UNCHANGED <<state, nodeRef, wasVisible, visibilityId, timers, notified, requested, childVars, posVars>>

\* a mounted Menu is unmounted: the cleanup of its effects; its state and refs are gone,
\* and its pending timers can write only the refs of the unmounted instance
Unmount(m) ==
  /\ props[m].mounted
  /\ props' = [props EXCEPT ![m] = Unmounted]
  /\ eventList' = unsubscribe(eventList, m, props[m].id)
  /\ state' = [state EXCEPT ![m] = InitialState]
  /\ nodeRef' = [nodeRef EXCEPT ![m] = FALSE]
  /\ wasVisible' = [wasVisible EXCEPT ![m] = "undefined"]
  /\ visibilityId' = [visibilityId EXCEPT ![m] = 0]
  /\ timers' = {t \in timers : t.menu # m}
  /\ notified' = [notified EXCEPT ![m] = "none"]
  /\ requested' = [requested EXCEPT ![m] = NoPosition]
  /\ lastEmit' = NoEmit
  /\ UNCHANGED <<childVars, posVars>>

\* a trigger emits a show for an id, at the position (1, 1)
EmitShow ==
  /\ \E id \in MenuIdValues :
       LET r == emit(World, props, eventList[id],
                     Args(ShowParams(TriggerEvent, "p1", Position(1, 1))))
       IN  /\ Cardinality(r.w.timers) <= MaxTimers
           /\ Apply(r.w)
           /\ lastEmit' = [kind |-> "show", key |-> id,
                           madeVisible |-> {m \in Menus : ~state[m].visible /\ r.w.state[m].visible}]
  /\ UNCHANGED <<props, eventList, childVars, posVars>>

\* contextMenu.hideAll(): HIDE_ALL is emitted, with no arguments
EmitHideAll ==
  /\ LET r == emit(World, props, eventList[HIDE_ALL], NoArgs)
     IN  /\ Cardinality(r.w.timers) <= MaxTimers
         /\ Apply(r.w)
  /\ lastEmit' = [kind |-> "hideAll", key |-> HIDE_ALL, madeVisible |-> {}]
  /\ UNCHANGED <<props, eventList, childVars, posVars>>

\* a pending timer fires
EventsTimerFires ==
  /\ \E t \in timers :
       Apply(visibilityTimeout([World EXCEPT !.timers = @ \ {t}], props[t.menu], t.menu))
  /\ lastEmit' = NoEmit
  /\ UNCHANGED <<props, eventList, childVars, posVars>>

NextEvents ==
  \/ \E m \in Menus : Mount(m)
  \/ \E m \in Menus : Rerender(m)
  \/ \E m \in Menus : Unmount(m)
  \/ EmitShow
  \/ EmitHideAll
  \/ EventsTimerFires

SpecEvents == InitEvents /\ [][NextEvents]_vars

\* how many times handler fn of menu m is subscribed under event k
Subscriptions(m, fn, k) ==
  Cardinality({i \in 1 .. Len(eventList[k]) : eventList[k][i] = Handler(m, fn)})

\* C9: a mounted Menu has exactly one show handler under its current id and one hide
\* handler under HIDE_ALL and none elsewhere, an unmounted one has none; a show emitted
\* for id I makes visible only menus whose id is I, and HIDE_ALL hides every mounted menu
C9_SubscriptionById ==
  /\ \A m \in Menus, k \in EventKeys :
       /\ Subscriptions(m, "show", k) = IF props[m].mounted /\ k = props[m].id THEN 1 ELSE 0
       /\ Subscriptions(m, "hide", k) = IF props[m].mounted /\ k = HIDE_ALL THEN 1 ELSE 0
  /\ lastEmit.kind = "show"
       => \A m \in lastEmit.madeVisible : props[m].mounted /\ props[m].id = lastEmit.key
  /\ lastEmit.kind = "hideAll"
       => \A m \in Menus : props[m].mounted => ~state[m].visible

(***************************************************************************)
(* SpecPosition: getMousePosition called on trigger events, well formed    *)
(* and malformed.                                                          *)
(***************************************************************************)
\* the changedTouches of the events: none (a mouse event), an empty list, one touch
TouchLists ==
  {NoTouches, Touches(<< >>)} \cup {Touches(<<Touch(cx, cy)>>) : cx \in JsCoords, cy \in JsCoords}

TriggerEvents ==
  {Event("contextmenu", cx, cy, NoTouches, 2, FALSE) : cx \in JsCoords, cy \in JsCoords}
    \cup {Event("touchend", Undefined, Undefined, l, -1, FALSE) : l \in TouchLists \ {NoTouches}}

InitPosition ==
  /\ mouseEvent \in TriggerEvents
  /\ mousePosition = NoCall
  /\ props = [m \in Menus |-> Unmounted]
  /\ InitMenuRefs
  /\ item = NoItem
  /\ submenu = NoSubmenu
  /\ InitNoChildren
  /\ InitNoEvents

\* getMousePosition(e) returns, or throws
Call ==
  /\ ~mousePosition.done
  /\ mousePosition' = [done |-> TRUE] @@ getMousePosition(mouseEvent)
  /\ UNCHANGED <<mouseEvent, menuVars, childVars, emVars>>

\* the next trigger event arrives
NextTrigger ==
  /\ mousePosition.done
  /\ mouseEvent' \in TriggerEvents
  /\ mousePosition' = NoCall
  /\ UNCHANGED <<menuVars, childVars, emVars>>

NextPosition == Call \/ NextTrigger

SpecPosition == InitPosition /\ [][NextPosition]_vars

\* the coordinate the event carries: the first changed touch's when it has changedTouches
carried(e, field) ==
  IF e.changedTouches.defined /\ Len(e.changedTouches.list) > 0
  THEN e.changedTouches.list[1][field]
  ELSE e[field]

\* a coordinate with missing, NaN and negative replaced by 0
expected(v) == IF v.t = "number" /\ v.n >= 0 THEN v.n ELSE 0

\* C10: for every trigger event getMousePosition returns, without raising an error, a
\* position with x >= 0 and y >= 0: the first changed touch's coordinates when the event
\* carries changedTouches, the event's otherwise, each missing, NaN or negative one
\* replaced by 0
C10_MousePosition ==
  mousePosition.done
    => /\ ~mousePosition.threw
       /\ mousePosition.x >= 0 /\ mousePosition.y >= 0
       /\ mousePosition.x = expected(carried(mouseEvent, "clientX"))
       /\ mousePosition.y = expected(carried(mouseEvent, "clientY"))

(***************************************************************************)
(* SpecHide: one mounted Menu whose calls of show and hide are recorded in *)
(* lastOp, with the argument hide was given.                               *)
(***************************************************************************)
\* the events hide is given: those of hideOnEvents, and the contextmenu event of a
\* ctrl + click
HideEvents ==
  WindowEvents \cup {Event("contextmenu", Num(1), Num(1), NoTouches, 0, TRUE)}

\* the positions show is given
HidePositions == {NoPosition, Position(1, MaxCoord)}

ShowCalled(m) ==
  /\ props[m].mounted
  /\ \E e \in ShowEvents, p \in {"p1", "p2"}, position \in HidePositions :
       Apply(show(World, props[m], m, ShowParams(e, p, position)))
  /\ lastOp' = [op |-> "show", menu |-> m, arg |-> NoArg]
  /\ UNCHANGED <<props, item, submenu, children, hideAllTimers, calls, emVars, posVars>>

\* hide(), from a caller or from HIDE_ALL
HideCalled(m) ==
  /\ props[m].mounted
  /\ Cardinality(timers) < MaxTimers
  /\ Apply(hide(World, props[m], m, NoArg))
  /\ lastOp' = [op |-> "hide", menu |-> m, arg |-> NoArg]
  /\ UNCHANGED <<props, item, submenu, children, hideAllTimers, calls, emVars, posVars>>

\* hide(e), from the window's listeners while the menu is visible
WindowEventHeard(m) ==
  /\ props[m].mounted
  /\ state[m].visible
  /\ Cardinality(timers) < MaxTimers
  /\ \E e \in HideEvents :
       /\ Apply(hide(World, props[m], m, Arg(e)))
       /\ lastOp' = [op |-> "hide", menu |-> m, arg |-> Arg(e)]
  /\ UNCHANGED <<props, item, submenu, children, hideAllTimers, calls, emVars, posVars>>

TimeoutRuns ==
  /\ \E t \in timers :
       /\ Apply(visibilityTimeout([World EXCEPT !.timers = @ \ {t}], props[t.menu], t.menu))
       /\ lastOp' = [op |-> "timeout", menu |-> t.menu, arg |-> NoArg]
  /\ UNCHANGED <<props, item, submenu, children, hideAllTimers, calls, emVars, posVars>>

NextHide ==
  \/ \E m \in Menus : ShowCalled(m)
  \/ \E m \in Menus : HideCalled(m)
  \/ \E m \in Menus : WindowEventHeard(m)
  \/ TimeoutRuns

SpecHide == InitMenu /\ [][NextHide]_vars

\* an event with button === 2 or ctrlKey set whose type is not "contextmenu"
rightOrCtrlClick(e) ==
  e.given /\ (e.event.button = 2 \/ e.event.ctrlKey = TRUE) /\ ~(e.event.type = "contextmenu")

\* C11: a call of hide with an event that has button === 2 or ctrlKey set and whose type is
\* not "contextmenu" leaves the menu state unchanged, schedules no timer and calls no
\* onVisibilityChange; every other call of hide, with no event or with any other event,
\* makes visible false and keeps x, y, triggerEvent and propsFromTrigger
C11_IgnoredHide ==
  [][\A m \in Menus :
       (lastOp'.op = "hide" /\ lastOp'.menu = m)
         => IF rightOrCtrlClick(lastOp'.arg)
            THEN /\ state'[m] = state[m]
                 /\ timers' = timers
                 /\ visibilityId' = visibilityId
                 /\ notified' = notified
                 /\ wasVisible' = wasVisible
            ELSE /\ state'[m].visible = FALSE
                 /\ state'[m].x = state[m].x
                 /\ state'[m].y = state[m].y
                 /\ state'[m].triggerEvent = state[m].triggerEvent
                 /\ state'[m].propsFromTrigger = state[m].propsFromTrigger]_vars

\* a right click or ctrl + click was given to hide and the menu, shown away from the
\* origin by a trigger, is still visible with nothing pending
C11_Witness ==
  \E m \in Menus :
    /\ lastOp.op = "hide"
    /\ lastOp.menu = m
    /\ rightOrCtrlClick(lastOp.arg)
    /\ state[m].visible
    /\ state[m].x > 0
    /\ state[m].propsFromTrigger = "p2"
    /\ timers = {}

=============================================================================
